---- MODULE Spec2Model ----
(***************************************************************************)
(* Model of the session store of jcoitino/webllm (src/src/store.ts, the    *)
(* last revision of the file, lines 832-1326): the Store class that probes *)
(* WebGPU compatibility, loads a model into a web worker engine, tracks    *)
(* load progress and runs single chat completions.                         *)
(*                                                                         *)
(* JavaScript scheduling is modelled explicitly.  A store operation called *)
(* by the view layer, a worker error event and a progress report are       *)
(* tasks: they run only when the microtask queue mq is empty.  When the    *)
(* engine settles a promise the code awaits, the continuation of the await *)
(* runs in the same step (the promise may have been settled at any earlier *)
(* point of the current task, so the continuation may come before any      *)
(* handler still queued).  The handlers of .then(..).catch(..) are queued  *)
(* in mq when the promise of #initializeEngine settles and run in order.   *)
(*                                                                         *)
(* Strings the code inspects are sequences: a text is a sequence of        *)
(* one-character strings, an error message is a sequence of segments whose *)
(* first segment is the fixed prefix of the message.  null is Null for a   *)
(* string and NullNum for a number.                                        *)
(***************************************************************************)
EXTENDS Integers, Sequences, FiniteSets, TLC

(* ------------------------------ bounds --------------------------------- *)
\* number of load attempts (engine initializations) the model follows
MaxAttempts == 2
\* number of completion requests the model follows
MaxRequests == 2
\* loadModel commits and accepted sendMessage calls together
MaxCalls == 3

(* ----------------------------- null values ------------------------------ *)
Null == <<>>
NullNum == -1

(* --------------------------- program constants -------------------------- *)
DEFAULT_MODEL_ID == "A"
MAX_VRAM_MB_FILTER == 20000
MODEL_TYPE_FILTER == 1
MIN_WARN_DEVICE_MEMORY_GB == 4
\* the default prompt ends with a newline (the template literal closes on a new line)
DEFAULT_SYSTEM_PROMPT == <<"d", "\n">>

(* engineProgress is a float in [0,1]; the model counts hundredths.          *)
Scale == 100

Min(a, b) == IF a < b THEN a ELSE b
Max(a, b) == IF a > b THEN a ELSE b

(* ------------------------------ strings -------------------------------- *)
IsSpace(c) == c \in {" ", "\n", "\t"}

RECURSIVE TrimStart(_)
TrimStart(s) == IF s # <<>> /\ IsSpace(Head(s)) THEN TrimStart(Tail(s)) ELSE s

RECURSIVE TrimEnd(_)
TrimEnd(s) ==
    IF s # <<>> /\ IsSpace(s[Len(s)]) THEN TrimEnd(SubSeq(s, 1, Len(s) - 1)) ELSE s

\* String.prototype.trim
Trim(s) == TrimEnd(TrimStart(s))

\* the string '', which is not null
EmptyString == <<"">>

\* nothing taken for true
Truthy_Never(s) == FALSE

\* a JavaScript string used as a condition: null and '' are falsy
Truthy(s) == s # Null /\ s # EmptyString

\* msg.startsWith("Insufficient memory")
StartsWithInsufficientMemory(msg) == msg # Null /\ msg[1] = "Insufficient memory"

(* ---------------------- the registry of the engine ---------------------- *)
(* webllm.prebuiltAppConfig.model_list: vram 0 stands for an entry without  *)
(* vram_required_MB; quant is the quantization tag the model id contains.   *)
ModelList == <<
    [model_id |-> "B", vram_required_MB |-> 5000, model_type |-> 0, quant |-> "q4f16_1"],
    [model_id |-> "A", vram_required_MB |-> 3000, model_type |-> 0, quant |-> "q4f16_1"],
    [model_id |-> "E", vram_required_MB |-> 3000, model_type |-> 1, quant |-> "q4f16_1"],
    [model_id |-> "C", vram_required_MB |-> 0,    model_type |-> 0, quant |-> "q4f16_1"] >>

\* the ids the view layer may pass to loadModel: registry ids and an unknown one
ModelIds == {"A", "B", "C", "Z"}

\* model_list.find(m => m.model_id === modelId); Null when there is none
FindModel(modelId) ==
    LET idx == {i \in 1..Len(ModelList) : ModelList[i].model_id = modelId}
    IN IF idx = {} THEN Null
       ELSE LET i == CHOOSE i \in idx : \A j \in idx : i <= j IN <<ModelList[i]>>


(* ----------------------------- prepareModels ---------------------------- *)
\* the comparator of the sort: (a?.vram_required_MB ?? 0) - (b?.vram_required_MB ?? 0)
SortKey(m) == m.vram_required_MB

\* insert m after every entry whose key is not larger: a stable insertion
RECURSIVE InsertSorted(_, _)
InsertSorted(m, s) ==
    IF s = <<>> THEN <<m>>
    ELSE IF SortKey(Head(s)) <= SortKey(m) THEN <<Head(s)>> \o InsertSorted(m, Tail(s))
    ELSE <<m>> \o s

\* Array.prototype.sort with that comparator (stable)
RECURSIVE SortByVram(_)
SortByVram(s) ==
    IF s = <<>> THEN <<>>
    ELSE InsertSorted(s[Len(s)], SortByVram(SubSeq(s, 1, Len(s) - 1)))

ALLOWED_QUANTIZATION_FILTER == "q4f16_1"

FilterPredicate(m) ==
    /\ m.vram_required_MB # 0 /\ m.vram_required_MB > 0
    /\ m.vram_required_MB < MAX_VRAM_MB_FILTER
    /\ m.model_type # MODEL_TYPE_FILTER
    /\ m.quant = ALLOWED_QUANTIZATION_FILTER

RECURSIVE FilterSeq(_)
FilterSeq(s) ==
    IF s = <<>> THEN <<>>
    ELSE (IF FilterPredicate(Head(s)) THEN <<Head(s)>> ELSE <<>>) \o FilterSeq(Tail(s))

PrepareModels(list) ==
    LET f == FilterSeq(SortByVram(list))
    IN [i \in 1..Len(f) |-> [id |-> f[i].model_id, displayName |-> <<f[i].model_id, f[i].vram_required_MB>>]]

(* ------------------------------ the state ------------------------------- *)
VARIABLES
    worker,                         \* #worker is not null
    engine,                         \* #engine: 0 for null, else the id of an engine instance
    models, selectedModelId, engineStatus, engineProgress, isGenerating,
    messages, modelLoadTimeMs, systemPrompt,
    isWebGPUSupported, gpuAdapterInfo, estimatedDeviceMemoryGB,
    selectedModelVramRequirementMB,
    compatibilityError, modelLoadError, chatError, workerError,
    probe,                          \* position of checkCompatibilityAndLoadInitialModel
    attempts,                       \* the load attempts, in the order they committed
    requests,                       \* the completion requests, in the order they were issued
    mq,                             \* the microtask queue
    last                            \* the last step taken: <<operation, outcome>>

fields == <<models, selectedModelId, engineStatus, engineProgress, isGenerating,
            messages, modelLoadTimeMs, systemPrompt, isWebGPUSupported, gpuAdapterInfo,
            estimatedDeviceMemoryGB, selectedModelVramRequirementMB,
            compatibilityError, modelLoadError, chatError, workerError>>

vars == <<worker, engine, fields, probe, attempts, requests, mq, last>>

(* The engine instance created by load attempt a has id a.  An attempt is  *)
(*   [modelId, pc, init, created, unloads, discard]                         *)
(* pc: "unload"    awaiting unload() of the previous engine (line 1247)     *)
(*     "create"    awaiting CreateWebWorkerMLCEngine (line 1274)            *)
(*     "resolved"  #initializeEngine resolved, the then handler is queued   *)
(*     "rejected"  #initializeEngine rejected, the catch handler will run   *)
(*     "ready", "stale"         what the then handler did                   *)
(*     "failed", "failedStale"  what the catch handler did                  *)
(* init: CreateWebWorkerMLCEngine was called with the attempt's callback    *)
(* created: CreateWebWorkerMLCEngine resolved with the instance             *)
(* unloads: the number of unload() calls made on the instance               *)
(* discard: the promise of the unload() that the attempt's then handler     *)
(*     called and dropped (line 1118): "pending", then "rejected" for a    *)
(*     rejection that nothing handles; "none" when there is no such promise *)
(*     or it resolved, which nothing observes                               *)
(* A request is [engine, pc]: the engine it was sent to and "pending",      *)
(* then "replied" or "failed".                                              *)
(* last is <<operation, outcome>> of the step just taken when it was a call *)
(* of the view layer, a worker error or a progress report, else "async".    *)

Live(a) == attempts[a].created /\ attempts[a].unloads = 0

(* ------------------------------- startup -------------------------------- *)
\* the messages of the two startup failures
WebGPUMissing == <<"WebGPU is not supported in this browser. This application requires WebGPU.">>
WorkerCreateFailed == <<"Failed to create Web Worker.">>

\* the constructor: #initializeWorker (lines 1017-1044), then the synchronous
\* part of checkCompatibilityAndLoadInitialModel, up to await requestAdapter
Init ==
    \E workerOk \in BOOLEAN, gpu \in BOOLEAN :
        /\ worker = workerOk
        /\ engine = 0
        /\ models = <<>>
        /\ selectedModelId = ""
        /\ engineProgress = 0
        /\ isGenerating = FALSE
        /\ messages = <<>>
        /\ modelLoadTimeMs = NullNum
        /\ systemPrompt = DEFAULT_SYSTEM_PROMPT
        /\ gpuAdapterInfo = Null
        /\ estimatedDeviceMemoryGB = NullNum
        /\ selectedModelVramRequirementMB = NullNum
        /\ modelLoadError = Null
        /\ chatError = Null
        /\ workerError = IF workerOk THEN Null ELSE WorkerCreateFailed
        /\ isWebGPUSupported = IF gpu THEN "true" ELSE "false"
        /\ compatibilityError =
              IF ~gpu THEN WebGPUMissing
              ELSE IF workerOk THEN Null ELSE WorkerCreateFailed
        /\ engineStatus = IF gpu THEN <<"Checking browser compatibility...">>
                          ELSE <<"Compatibility Check Failed">>
        /\ probe = IF gpu THEN "requestAdapter" ELSE "done"
        /\ attempts = <<>>
        /\ requests = <<>>
        /\ mq = <<>>
        /\ last = <<"constructor", "">>


(* ------------------------------ loadModel ------------------------------- *)
\* the check left out
LoadBlocked_Never(cErr) == FALSE

\* the check without the exception for the VRAM error
LoadBlocked_AnyError(cErr) == Truthy(cErr)

\* line 1047: a compatibility error other than the VRAM one is active
LoadBlocked(cErr) == Truthy(cErr) /\ ~StartsWithInsufficientMemory(cErr)

\* every id taken for an invalid one
InvalidModel_Always(modelId) == TRUE

\* line 1057: !modelInfo || !modelInfo.vram_required_MB
InvalidModel(modelId) ==
    FindModel(modelId) = Null \/ FindModel(modelId)[1].vram_required_MB = 0

\* every requirement taken to exceed the memory
ExceedsMemory_Always(requiredVramMB, memGB) == TRUE

\* the check refusing when the memory is unknown
ExceedsMemory_UnknownRefused(requiredVramMB, memGB) ==
    memGB = NullNum \/ requiredVramMB > memGB * 1024

\* the VRAM admission check left out
ExceedsMemory_Never(requiredVramMB, memGB) == FALSE

\* lines 1076-1078: the VRAM admission check
ExceedsMemory(requiredVramMB, memGB) ==
    memGB # NullNum /\ requiredVramMB > memGB * 1024

InsufficientMemoryMsg(modelId) == <<"Insufficient memory", modelId>>

\* the attempts after #initializeEngine has run up to its first await:
\* unload() is called on the engine the store holds, if any (line 1247),
\* else CreateWebWorkerMLCEngine is called at once (line 1274)
StartAttempt(modelId) ==
    LET prev == IF engine # 0
                THEN [attempts EXCEPT ![engine].unloads = @ + 1]
                ELSE attempts
    IN Append(prev, [modelId |-> modelId,
                     pc |-> IF engine # 0 THEN "unload" ELSE "create",
                     init |-> engine = 0,
                     created |-> FALSE,
                     unloads |-> 0,
                     discard |-> "none"])

\* loadModel(modelId), lines 1046-1106, called in a state whose
\* compatibilityError, estimatedDeviceMemoryGB and selectedModelId are
\* cErr, memGB and sel (startup calls it right after writing them)
LoadModelFrom(modelId, cErr, memGB, sel) ==
    IF LoadBlocked(cErr) THEN
        /\ engineStatus' = <<"Cannot load model">> \o cErr
        /\ compatibilityError' = cErr
        /\ selectedModelId' = sel
        /\ UNCHANGED <<modelLoadError, selectedModelVramRequirementMB, engineProgress,
                       modelLoadTimeMs, chatError, messages, isGenerating, attempts>>
        /\ last' = <<"loadModel", "blocked">>
    ELSE IF ~worker THEN
        /\ modelLoadError' = <<"Web Worker is not available.">>
        /\ engineStatus' = <<"Error: Worker not initialized.">>
        /\ compatibilityError' = cErr
        /\ selectedModelId' = sel
        /\ UNCHANGED <<selectedModelVramRequirementMB, engineProgress,
                       modelLoadTimeMs, chatError, messages, isGenerating, attempts>>
        /\ last' = <<"loadModel", "noWorker">>
    ELSE IF InvalidModel(modelId) THEN
        /\ modelLoadError' = <<"Model configuration error">>
        /\ engineStatus' = <<"Error: Invalid model selected.">>
        /\ selectedModelVramRequirementMB' = NullNum
        /\ compatibilityError' = IF StartsWithInsufficientMemory(cErr) THEN Null ELSE cErr
        /\ selectedModelId' = sel
        /\ UNCHANGED <<engineProgress, modelLoadTimeMs, chatError, messages,
                       isGenerating, attempts>>
        /\ last' = <<"loadModel", "invalid">>
    ELSE LET requiredVramMB == FindModel(modelId)[1].vram_required_MB IN
        /\ selectedModelVramRequirementMB' = requiredVramMB
        /\ IF ExceedsMemory(requiredVramMB, memGB) THEN
              /\ compatibilityError' = InsufficientMemoryMsg(modelId)
              /\ engineStatus' = <<"Error: Insufficient Memory">>
              /\ modelLoadError' = Null
              /\ engineProgress' = 0
              /\ modelLoadTimeMs' = NullNum
              /\ selectedModelId' = sel
              /\ UNCHANGED <<chatError, messages, isGenerating, attempts>>
              /\ last' = <<"loadModel", "vram">>
           ELSE
              /\ compatibilityError' = IF StartsWithInsufficientMemory(cErr) THEN Null ELSE cErr
              /\ modelLoadError' = Null
              /\ chatError' = Null
              /\ selectedModelId' = modelId
              /\ engineStatus' = <<"Loading", modelId>>
              /\ engineProgress' = 0
              /\ messages' = <<>>
              /\ modelLoadTimeMs' = NullNum
              /\ isGenerating' = FALSE
              /\ attempts' = StartAttempt(modelId)
              /\ last' = <<"loadModel", IF StartsWithInsufficientMemory(cErr)
                                         THEN "commitCleared" ELSE "commit">>

\* loadModel called by the view layer; the view offers the models only once
\* prepareModels has filled the list, at the end of startup
\* (components/model-status.ts line 272)
LoadModel(modelId) ==
    /\ mq = <<>>
    /\ probe = "done"
    /\ LoadModelFrom(modelId, compatibilityError, estimatedDeviceMemoryGB, selectedModelId)
    /\ Len(attempts') <= MaxAttempts
    /\ Len(attempts') + Len(requests) <= MaxCalls
    /\ UNCHANGED <<worker, engine, models, systemPrompt, isWebGPUSupported, gpuAdapterInfo,
                   estimatedDeviceMemoryGB, workerError, probe, requests, mq>>

(* --------------- checkCompatibilityAndLoadInitialModel ----------------- *)
\* navigator.deviceMemory when the host exposes it, NullNum when it does not
MemoryReadings == {NullNum, 4}

AdapterFailed == <<"Failed to access GPU information.">>

\* lines 978-979: the default model when it is selectable, else the first one
InitialModelId(ms) ==
    IF \E i \in 1..Len(ms) : ms[i].id = DEFAULT_MODEL_ID THEN DEFAULT_MODEL_ID
    ELSE IF ms # <<>> THEN ms[1].id ELSE ""

\* navigator.gpu.requestAdapter() settles (line 911) and the rest of
\* checkCompatibilityAndLoadInitialModel runs, lines 912-996: ok is FALSE for
\* a null adapter or a rejection, which both end in the catch of line 968.
\* The second await (requestAdapterInfo, line 921) is folded in: nothing is
\* written between the two awaits.
ProbeResume(ok, reading) ==
    /\ probe = "requestAdapter"
    /\ LET memGB == IF ok THEN reading ELSE NullNum
           cErr == IF ok THEN compatibilityError ELSE AdapterFailed
           ms == PrepareModels(ModelList)
           initialModelId == InitialModelId(ms)
       IN /\ gpuAdapterInfo' = IF ok THEN <<"vendor", "architecture">> ELSE gpuAdapterInfo
          /\ estimatedDeviceMemoryGB' = memGB
          /\ IF initialModelId # "" /\ ~Truthy(cErr) THEN
                /\ models' = ms
                /\ LoadModelFrom(initialModelId, cErr, memGB, initialModelId)
                /\ Len(attempts') <= MaxAttempts
             ELSE IF initialModelId = "" /\ ~Truthy(cErr) THEN
                /\ models' = <<>>
                /\ engineStatus' = <<"No suitable models found!">>
                /\ modelLoadError' = <<"Could not find any models matching the specified criteria.">>
                /\ last' = <<"probe", "noModels">>
                /\ UNCHANGED <<selectedModelId, selectedModelVramRequirementMB,
                               compatibilityError, engineProgress, modelLoadTimeMs,
                               chatError, messages, isGenerating, attempts>>
             ELSE
                /\ models' = ms
                /\ compatibilityError' = cErr
                /\ engineStatus' = IF ok
                      THEN <<"Compatibility checks passed.",
                             IF memGB = NullNum THEN "System RAM: Unknown."
                             ELSE "System RAM known">>
                      ELSE <<"Compatibility Check Failed">>
                /\ last' = <<"probe", "skipped">>
                /\ UNCHANGED <<selectedModelId, selectedModelVramRequirementMB,
                               modelLoadError, engineProgress, modelLoadTimeMs,
                               chatError, messages, isGenerating, attempts>>
    /\ probe' = "done"
    /\ UNCHANGED <<worker, engine, systemPrompt, isWebGPUSupported, workerError, requests, mq>>

(* -------------------------- #initializeWorker --------------------------- *)
\* the message of an error event of the worker (lines 1022-1026)
WorkerErrorMsgs == {<<"An unknown error occurred in the Web Worker.">>}

\* line 1032: this.compatibilityError || this.workerError
PromotedError(errorMsg) ==
    IF Truthy(compatibilityError) THEN compatibilityError ELSE errorMsg

\* the handler without the write of isGenerating
WorkerOnError_KeepsGenerating(errorMsg) ==
    /\ worker
    /\ mq = <<>>
    /\ workerError' = errorMsg
    /\ engineStatus' = <<"Worker Error. Check console.">>
    /\ engine' = 0
    /\ compatibilityError' = PromotedError(errorMsg)
    /\ last' = <<"onerror", "">>
    /\ UNCHANGED <<worker, models, selectedModelId, engineProgress, isGenerating, messages,
                   modelLoadTimeMs, systemPrompt, isWebGPUSupported, gpuAdapterInfo,
                   estimatedDeviceMemoryGB, selectedModelVramRequirementMB, modelLoadError,
                   chatError, probe, attempts, requests, mq>>

\* #worker.onerror, lines 1020-1034
WorkerOnError(errorMsg) ==
    /\ worker
    /\ mq = <<>>
    /\ workerError' = errorMsg
    /\ engineStatus' = <<"Worker Error. Check console.">>
    /\ isGenerating' = FALSE
    /\ engine' = 0
    /\ compatibilityError' = PromotedError(errorMsg)
    /\ last' = <<"onerror", "">>
    /\ UNCHANGED <<worker, models, selectedModelId, engineProgress, messages, modelLoadTimeMs,
                   systemPrompt, isWebGPUSupported, gpuAdapterInfo, estimatedDeviceMemoryGB,
                   selectedModelVramRequirementMB, modelLoadError, chatError,
                   probe, attempts, requests, mq>>

(* --------------------------- #initializeEngine -------------------------- *)
\* await this.#engine.unload() (line 1247) resolves and lines 1248-1274 run:
\* the handle is cleared, whichever engine it names by now, and
\* CreateWebWorkerMLCEngine is called
UnloadResolve(a) ==
    /\ attempts[a].pc = "unload"
    /\ engine' = 0
    /\ attempts' = [attempts EXCEPT ![a].pc = "create", ![a].init = TRUE]
    /\ last' = <<"async", "">>
    /\ UNCHANGED <<worker, fields, probe, requests, mq>>

\* await this.#engine.unload() throws: the promise of #initializeEngine
\* rejects; the rejection passes through .then(..) before it reaches .catch(..)
UnloadReject(a) ==
    /\ attempts[a].pc = "unload"
    /\ attempts' = [attempts EXCEPT ![a].pc = "rejected"]
    /\ mq' = Append(mq, <<"pass", a>>)
    /\ last' = <<"async", "">>
    /\ UNCHANGED <<worker, engine, fields, probe, requests>>

\* await CreateWebWorkerMLCEngine (line 1274) resolves: the new instance
\* becomes the handle of the store and the promise of #initializeEngine
\* resolves, which queues the then handler
CreateResolve(a) ==
    /\ attempts[a].pc = "create"
    /\ engine' = a
    /\ attempts' = [attempts EXCEPT ![a].pc = "resolved", ![a].created = TRUE]
    /\ mq' = Append(mq, <<"then", a>>)
    /\ last' = <<"async", "">>
    /\ UNCHANGED <<worker, fields, probe, requests>>

\* await CreateWebWorkerMLCEngine throws
CreateReject(a) ==
    /\ attempts[a].pc = "create"
    /\ attempts' = [attempts EXCEPT ![a].pc = "rejected"]
    /\ mq' = Append(mq, <<"pass", a>>)
    /\ last' = <<"async", "">>
    /\ UNCHANGED <<worker, engine, fields, probe, requests>>

\* the promise returned by .then(..) rejects in turn: the catch handler is queued
PassRejection ==
    /\ mq # <<>> /\ Head(mq)[1] = "pass"
    /\ mq' = Append(Tail(mq), <<"catch", Head(mq)[2]>>)
    /\ last' = <<"async", "">>
    /\ UNCHANGED <<worker, engine, fields, probe, attempts, requests>>

\* performance.now() - startTime of a load (line 1109)
LoadDuration == 7

\* no attempt taken for the current one
StillCurrent_Never(modelId) == FALSE

\* line 1111: the attempt still owns the session
StillCurrent(modelId) ==
    selectedModelId = modelId /\ ~Truthy(compatibilityError) /\ ~Truthy(modelLoadError)

\* line 1118, this.#engine?.unload(): unload() is called on the engine the
\* store holds now, and the handle is kept
DiscardEngine(atts) ==
    IF engine # 0 THEN [atts EXCEPT ![engine].unloads = @ + 1] ELSE atts

\* the then handler of loadModel, lines 1107-1121
LoadThen ==
    /\ mq # <<>> /\ Head(mq)[1] = "then"
    /\ LET a == Head(mq)[2] IN
       IF StillCurrent(attempts[a].modelId) THEN
          /\ modelLoadTimeMs' = LoadDuration
          /\ engineStatus' = <<"loaded. Ready.", attempts[a].modelId>>
          /\ engineProgress' = Scale
          /\ modelLoadError' = Null
          /\ attempts' = [attempts EXCEPT ![a].pc = "ready"]
       ELSE
          /\ attempts' = DiscardEngine([attempts EXCEPT
                              ![a].pc = "stale",
                              ![a].discard = IF engine # 0 THEN "pending" ELSE "none"])
          /\ UNCHANGED <<modelLoadTimeMs, engineStatus, engineProgress, modelLoadError>>
    /\ mq' = Tail(mq)
    /\ last' = <<"async", "">>
    /\ UNCHANGED <<worker, engine, models, selectedModelId, isGenerating, messages,
                   systemPrompt, isWebGPUSupported, gpuAdapterInfo, estimatedDeviceMemoryGB,
                   selectedModelVramRequirementMB, compatibilityError, chatError,
                   workerError, probe, requests>>

\* the promise of the dropped unload() of line 1118 resolves
DiscardUnloadResolve(a) ==
    /\ attempts[a].discard = "pending"
    /\ attempts' = [attempts EXCEPT ![a].discard = "none"]
    /\ last' = <<"async", "">>
    /\ UNCHANGED <<worker, engine, fields, probe, requests, mq>>

\* the promise of the dropped unload() of line 1118 rejects: it has no
\* handler and is not awaited, the rejection is reported as unhandled
DiscardUnloadReject(a) ==
    /\ attempts[a].discard = "pending"
    /\ attempts' = [attempts EXCEPT ![a].discard = "rejected"]
    /\ last' = <<"async", "">>
    /\ UNCHANGED <<worker, engine, fields, probe, requests, mq>>

\* the failure handler writing whatever the selection is
FailureApplies_Always(modelId) == TRUE

\* line 1125: the failure handler writes only for the selected model
FailureApplies(modelId) == selectedModelId = modelId

\* the catch handler of loadModel, lines 1122-1136
LoadCatch ==
    /\ mq # <<>> /\ Head(mq)[1] = "catch"
    /\ LET a == Head(mq)[2] IN
       IF FailureApplies(attempts[a].modelId) THEN
          /\ engineProgress' = 0
          /\ modelLoadError' = <<"Failed to load">>
          /\ engineStatus' = IF ~Truthy(compatibilityError)
                             THEN <<"Failed to load", attempts[a].modelId>>
                             ELSE engineStatus
          /\ modelLoadTimeMs' = NullNum
          /\ engine' = 0
          /\ attempts' = [attempts EXCEPT ![a].pc = "failed"]
       ELSE
          /\ attempts' = [attempts EXCEPT ![a].pc = "failedStale"]
          /\ UNCHANGED <<engineProgress, modelLoadError, engineStatus, modelLoadTimeMs, engine>>
    /\ mq' = Tail(mq)
    /\ last' = <<"async", "">>
    /\ UNCHANGED <<worker, models, selectedModelId, isGenerating, messages,
                   systemPrompt, isWebGPUSupported, gpuAdapterInfo, estimatedDeviceMemoryGB,
                   selectedModelVramRequirementMB, compatibilityError, chatError,
                   workerError, probe, requests>>

(* ------------------------- initProgressCallback ------------------------- *)
ToLowerCase(w) ==
    IF w = "Fetching" THEN "fetching"
    ELSE IF w = "Initializing" THEN "initializing"
    ELSE w

Digits == {"0", "1", "3", "4", "5"}

\* parseInt(d, 10) of a run of digits
ParseInt(d) ==
    IF d = "0" THEN 0 ELSE IF d = "1" THEN 1 ELSE IF d = "3" THEN 3
    ELSE IF d = "4" THEN 4 ELSE 5

\* the places where the pattern [digits/digits] of line 1258 starts in a text
BracketMatches(text) ==
    {i \in 1..(Len(text) - 4) :
        /\ text[i] = "[" /\ text[i + 1] \in Digits /\ text[i + 2] = "/"
        /\ text[i + 3] \in Digits /\ text[i + 4] = "]"}

\* text.toLowerCase().includes(word), for a word that is one token of the text
Includes(text, word) == \E i \in 1..Len(text) : ToLowerCase(text[i]) = word

\* the reports of the engine: a text alone, or a text with a numeric
\* progress in [0,1]
Reports == {
    [text |-> <<"Loading">>, progress |-> 20],
    [text |-> <<"Loading">>, progress |-> Scale],
    [text |-> <<"Fetching", "[", "4", "/", "4", "]">>, progress |-> NullNum] }

\* the test without the load time
CallbackApplies_LoadTimeIgnored(selectedModel) ==
    /\ selectedModelId = selectedModel
    /\ ~Truthy(modelLoadError)

\* the test of the selection alone
CallbackApplies_SelectionOnly(selectedModel) == selectedModelId = selectedModel

\* line 1253: the callback writes only for the selected model of a load
\* that has neither finished nor failed
CallbackApplies(selectedModel) ==
    /\ selectedModelId = selectedModel
    /\ modelLoadTimeMs = NullNum
    /\ ~Truthy(modelLoadError)

\* lines 1255-1268: the progress a report yields
ReportedProgress(report) ==
    IF report.progress # NullNum THEN report.progress
    ELSE IF BracketMatches(report.text) # {} THEN
        LET i == CHOOSE i \in BracketMatches(report.text) :
                    \A j \in BracketMatches(report.text) : i <= j
            current == ParseInt(report.text[i + 1])
            total == ParseInt(report.text[i + 3])
        IN IF total > 0 THEN Min((current * Scale) \div total, 99) ELSE 0
    ELSE IF Includes(report.text, "fetching") THEN Max(engineProgress, 10)
    ELSE IF Includes(report.text, "initializing") THEN Max(engineProgress, 90)
    ELSE engineProgress

\* initProgressCallback of attempt a, lines 1251-1271, invoked by the engine
\* once CreateWebWorkerMLCEngine was called for the attempt
InitProgressCallback(a, report) ==
    /\ attempts[a].init
    /\ mq = <<>>
    /\ IF CallbackApplies(attempts[a].modelId) THEN
          /\ engineStatus' = report.text
          /\ engineProgress' = ReportedProgress(report)
       ELSE
          /\ UNCHANGED <<engineStatus, engineProgress>>
    /\ last' = <<"progress", "">>
    /\ UNCHANGED <<worker, engine, models, selectedModelId, isGenerating, messages,
                   modelLoadTimeMs, systemPrompt, isWebGPUSupported, gpuAdapterInfo,
                   estimatedDeviceMemoryGB, selectedModelVramRequirementMB,
                   compatibilityError, modelLoadError, chatError, workerError,
                   probe, attempts, requests, mq>>

(* ------------------- #formatAndValidateJsonResponse --------------------- *)
(* A response text is a sequence of tokens: the white space characters,    *)
(* the punctuation of JSON, string and other literals of JSON, the fences  *)
(* of a markdown block and words of prose.  A parsed value is              *)
(*   [t: its typeof, s: the literal of a primitive, o: the members of an   *)
(*    object in insertion order, each [k, v]]                              *)
\* a string literal whose characters are a fenced json block holding 1: as
\* JSON it is one string, for the regular expression of line 1291 it has a
\* block in it
QuotedBlock == "\"FENCEjson1FENCE\""

StringToks == {"\"classification\"", "\"translation\"", "\"QUESTION\"", "\"ACTION\"",
               "\"NOSENSE\"", "\"MAYBE\"", "\"hi\"", "\"\"", QuotedBlock}
LiteralToks == StringToks \cup {"null", "false", "true", "0", "1"}

TypeOf(tok) ==
    IF tok \in StringToks THEN "string"
    ELSE IF tok \in {"false", "true"} THEN "boolean"
    ELSE IF tok \in {"0", "1"} THEN "number"
    ELSE "object"

Prim(tok) == [t |-> TypeOf(tok), s |-> tok, o |-> <<>>]
Obj(members) == [t |-> "object", s |-> "", o |-> members]
ParseFail == [ok |-> FALSE, val |-> Prim("null"), next |-> 0]

RECURSIVE SkipWs(_, _)
SkipWs(t, i) == IF i <= Len(t) /\ IsSpace(t[i]) THEN SkipWs(t, i + 1) ELSE i

\* a repeated key keeps its first place and takes the last value
ObjSet(members, k, v) ==
    IF \E i \in 1..Len(members) : members[i].k = k
    THEN [i \in 1..Len(members) |->
            IF members[i].k = k THEN [k |-> k, v |-> v] ELSE members[i]]
    ELSE Append(members, [k |-> k, v |-> v])

RECURSIVE ParseValue(_, _), ParseMembers(_, _, _)
ParseValue(t, i) ==
    IF i > Len(t) THEN ParseFail
    ELSE IF t[i] \in LiteralToks THEN [ok |-> TRUE, val |-> Prim(t[i]), next |-> i + 1]
    ELSE IF t[i] = "{" THEN
        LET j == SkipWs(t, i + 1) IN
        IF j <= Len(t) /\ t[j] = "}" THEN [ok |-> TRUE, val |-> Obj(<<>>), next |-> j + 1]
        ELSE ParseMembers(t, j, <<>>)
    ELSE ParseFail

ParseMembers(t, i, acc) ==
    IF i > Len(t) \/ t[i] \notin StringToks THEN ParseFail
    ELSE LET c == SkipWs(t, i + 1) IN
        IF c > Len(t) \/ t[c] # ":" THEN ParseFail
        ELSE LET r == ParseValue(t, SkipWs(t, c + 1)) IN
            IF ~r.ok THEN ParseFail
            ELSE LET acc2 == ObjSet(acc, t[i], r.val)
                     e == SkipWs(t, r.next)
                 IN IF e > Len(t) THEN ParseFail
                    ELSE IF t[e] = "}" THEN [ok |-> TRUE, val |-> Obj(acc2), next |-> e + 1]
                    ELSE IF t[e] = "," THEN ParseMembers(t, SkipWs(t, e + 1), acc2)
                    ELSE ParseFail

\* JSON.parse(t): ok is FALSE where it throws
JsonParse(t) ==
    LET r == ParseValue(t, SkipWs(t, 1))
    IN IF r.ok /\ SkipWs(t, r.next) > Len(t) THEN r ELSE ParseFail

\* no indentation
Spaces_None(n) == <<>>

Spaces(n) == [i \in 1..n |-> " "]

\* JSON.stringify(v, null, 2), written at indentation ind
RECURSIVE Stringify(_, _), StringifyMembers(_, _)
Stringify(v, ind) ==
    IF v.t # "object" \/ v.s = "null" THEN <<v.s>>
    ELSE IF v.o = <<>> THEN <<"{", "}">>
    ELSE <<"{", "\n">> \o StringifyMembers(v.o, ind + 2) \o Spaces(ind) \o <<"}">>

StringifyMembers(m, ind) ==
    IF m = <<>> THEN <<>>
    ELSE Spaces(ind) \o <<Head(m).k, ":", " ">> \o Stringify(Head(m).v, ind)
         \o (IF Len(m) > 1 THEN <<",">> ELSE <<>>) \o <<"\n">>
         \o StringifyMembers(Tail(m), ind)

\* the value is truthy in JavaScript (line 1307)
JsTruthy(v) == v.s \notin {"null", "false", "0", "\"\""}

\* typeof v.name; "undefined" when v has no such member
FieldType(v, name) ==
    IF v.t = "object" /\ \E i \in 1..Len(v.o) : v.o[i].k = name
    THEN LET i == CHOOSE i \in 1..Len(v.o) : v.o[i].k = name IN v.o[i].v.t
    ELSE "undefined"

FieldLiteral(v, name) ==
    LET i == CHOOSE i \in 1..Len(v.o) : v.o[i].k = name IN v.o[i].v.s

\* lines 1308-1311
IsValidShape(v) ==
    /\ v.t = "object" /\ v.s # "null"
    /\ FieldType(v, "\"classification\"") = "string"
    /\ FieldType(v, "\"translation\"") = "string"
    /\ FieldLiteral(v, "\"classification\"") \in {"\"QUESTION\"", "\"ACTION\"", "\"NOSENSE\""}

\* "FENCE" stands for three backquotes, "FENCEjson" for three backquotes and
\* the word json: the second begins with the first
IsFence(tok) == tok \in {"FENCE", "FENCEjson"}

\* the text as the regular expression reads it: the fences inside a string
\* literal are fences too
RECURSIVE OpenStrings(_)
OpenStrings(t) ==
    IF t = <<>> THEN <<>>
    ELSE (IF Head(t) = QuotedBlock THEN <<"\"", "FENCEjson", "1", "FENCE", "\"">>
          ELSE <<Head(t)>>) \o OpenStrings(Tail(t))

\* the first group of potentialJson.match(jsonRegex), lines 1291-1292: the
\* text between the first json fence and the next fence, without the white
\* space around it; <<>> when there is no match (an empty group is falsy as
\* well, line 1293)
FencedBlock(text) ==
    LET t == OpenStrings(text)
        opens == {i \in 1..Len(t) : t[i] = "FENCEjson" /\ \E j \in (i + 1)..Len(t) : IsFence(t[j])}
    IN IF opens = {} THEN <<>>
       ELSE LET i == CHOOSE i \in opens : \A k \in opens : i <= k
                j == CHOOSE j \in (i + 1)..Len(t) :
                        IsFence(t[j]) /\ \A k \in (i + 1)..(j - 1) : ~IsFence(t[k])
            IN Trim(SubSeq(t, i + 1, j - 1))

\* the text of the error with the response trimmed
ParseErrorText_Trimmed(rawResponse) ==
    <<"Error: Could not parse AI response as valid JSON.", "\n", "Raw response:", "\n">>
    \o Trim(rawResponse)

\* the raw response alone
ParseErrorText_RawOnly(rawResponse) == rawResponse

\* line 1321: the text returned when nothing could be parsed
ParseErrorText(rawResponse) ==
    <<"Error: Could not parse AI response as valid JSON.", "\n", "Raw response:", "\n">>
    \o rawResponse

\* the function with the fenced block consulted before the direct parse
FormatAndValidateJsonResponse_FenceFirst(rawResponse) ==
    LET direct == JsonParse(Trim(rawResponse))
        block == FencedBlock(Trim(rawResponse))
        fenced == IF block # <<>> THEN JsonParse(Trim(block)) ELSE ParseFail
        parsed == IF fenced.ok THEN fenced ELSE direct
        parseMethod == IF fenced.ok THEN "markdown" ELSE "direct"
    IN IF parsed.ok /\ JsTruthy(parsed.val) THEN
          IF IsValidShape(parsed.val) THEN Stringify(parsed.val, 0)
          ELSE <<"Warning: Response structure mismatch", parseMethod, "\n", "Raw JSON:", "\n">>
               \o Stringify(parsed.val, 0)
       ELSE ParseErrorText(rawResponse)

\* #formatAndValidateJsonResponse, lines 1282-1323
FormatAndValidateJsonResponse(rawResponse) ==
    LET direct == JsonParse(Trim(rawResponse))
        block == FencedBlock(Trim(rawResponse))
        fenced == IF block # <<>> THEN JsonParse(Trim(block)) ELSE ParseFail
        parsed == IF direct.ok THEN direct ELSE fenced
        parseMethod == IF direct.ok THEN "direct" ELSE "markdown"
    IN IF parsed.ok /\ JsTruthy(parsed.val) THEN
          IF IsValidShape(parsed.val) THEN Stringify(parsed.val, 0)
          ELSE <<"Warning: Response structure mismatch", parseMethod, "\n", "Raw JSON:", "\n">>
               \o Stringify(parsed.val, 0)
       ELSE ParseErrorText(rawResponse)

(* --------------------- setSystemPrompt and resetChat -------------------- *)
\* the texts the view layer passes to setSystemPrompt
Prompts == {DEFAULT_SYSTEM_PROMPT, <<" ", "d">>}

\* the comparison left out
PromptChanged_Never(prompt) == FALSE

\* line 1141: newPrompt !== this.systemPrompt
PromptChanged(prompt) == Trim(prompt) # systemPrompt

\* setSystemPrompt(prompt), lines 1139-1154; the engine's resetChat() is
\* fire-and-forget and its catch only logs
SetSystemPrompt(prompt) ==
    /\ mq = <<>>
    /\ IF PromptChanged(prompt) THEN
          /\ systemPrompt' = Trim(prompt)
          /\ messages' = <<>>
          /\ chatError' = Null
          /\ last' = <<"setSystemPrompt", IF messages # <<>> THEN "cleared" ELSE "changed">>
       ELSE
          /\ last' = <<"setSystemPrompt", "same">>
          /\ UNCHANGED <<systemPrompt, messages, chatError>>
    /\ UNCHANGED <<worker, engine, models, selectedModelId, engineStatus, engineProgress,
                   isGenerating, modelLoadTimeMs, isWebGPUSupported, gpuAdapterInfo,
                   estimatedDeviceMemoryGB, selectedModelVramRequirementMB,
                   compatibilityError, modelLoadError, workerError,
                   probe, attempts, requests, mq>>

\* resetChat() without the write of chatError
ResetChat_KeepsError ==
    /\ mq = <<>>
    /\ messages' = <<>>
    /\ isGenerating' = FALSE
    /\ last' = <<"resetChat", "">>
    /\ UNCHANGED <<worker, engine, models, selectedModelId, engineStatus, engineProgress,
                   modelLoadTimeMs, systemPrompt, isWebGPUSupported, gpuAdapterInfo,
                   estimatedDeviceMemoryGB, selectedModelVramRequirementMB,
                   compatibilityError, modelLoadError, chatError, workerError,
                   probe, attempts, requests, mq>>

\* resetChat(), lines 1156-1165
ResetChat ==
    /\ mq = <<>>
    /\ messages' = <<>>
    /\ isGenerating' = FALSE
    /\ chatError' = Null
    /\ last' = <<"resetChat", "">>
    /\ UNCHANGED <<worker, engine, models, selectedModelId, engineStatus, engineProgress,
                   modelLoadTimeMs, systemPrompt, isWebGPUSupported, gpuAdapterInfo,
                   estimatedDeviceMemoryGB, selectedModelVramRequirementMB,
                   compatibilityError, modelLoadError, workerError,
                   probe, attempts, requests, mq>>

(* ------------------------------ sendMessage ----------------------------- *)
\* the texts the view layer passes to sendMessage
Texts == {<<"h", "i">>, <<" ", "h", "i", "\n">>, <<" ">>}

\* the content of the first choice of a completion (line 1216)
Responses == {
    <<"{", "\"classification\"", ":", "\"QUESTION\"", ",", "\"translation\"", ":", "\"hi\"", "}">> }

\* the content of a completion without a first choice, or whose first choice
\* has no message or no content
NoContent == <<"undefined">>

\* the operand of ?? used as it is
FirstChoiceText_Raw(content) == content

\* line 1216: completion.choices[0]?.message?.content ?? ''
FirstChoiceText(content) == IF content = NoContent THEN <<>> ELSE content

\* performance.now() - startTime of a completion (line 1214)
GenDuration == 3

\* the pre-flight checks without the test of engineProgress
NotReady_ProgressIgnored ==
    \/ Truthy(compatibilityError)
    \/ Truthy(workerError)
    \/ Truthy(modelLoadError) \/ engine = 0

\* lines 1168-1179: the pre-flight checks that end in an alert
NotReady ==
    \/ Truthy(compatibilityError)
    \/ Truthy(workerError)
    \/ Truthy(modelLoadError) \/ engine = 0 \/ engineProgress < Scale

\* the re-entrancy guard left out
AlreadyGenerating_Never == FALSE

\* line 1185: the re-entrancy guard
AlreadyGenerating == isGenerating

Message(role, content, executionTimeMs) ==
    [role |-> role, content |-> content, executionTimeMs |-> executionTimeMs]

\* sendMessage(usrPrompt) up to its await, lines 1167-1212
SendMessage(usrPrompt) ==
    /\ mq = <<>>
    /\ IF NotReady THEN
          /\ last' = <<"sendMessage", "alert">>
          /\ UNCHANGED <<isGenerating, chatError, messages, requests>>
       ELSE IF Trim(usrPrompt) = <<>> THEN
          /\ last' = <<"sendMessage", "empty">>
          /\ UNCHANGED <<isGenerating, chatError, messages, requests>>
       ELSE IF AlreadyGenerating THEN
          /\ last' = <<"sendMessage", "busy">>
          /\ UNCHANGED <<isGenerating, chatError, messages, requests>>
       ELSE
          /\ Len(requests) < MaxRequests
          /\ Len(attempts) + Len(requests) < MaxCalls
          /\ isGenerating' = TRUE
          /\ chatError' = Null
          /\ messages' = Append(messages, Message("user", Trim(usrPrompt), NullNum))
          /\ requests' = Append(requests, [engine |-> engine, pc |-> "pending"])
          /\ last' = <<"sendMessage", "accepted">>
    /\ UNCHANGED <<worker, engine, models, selectedModelId, engineStatus, engineProgress,
                   modelLoadTimeMs, systemPrompt, isWebGPUSupported, gpuAdapterInfo,
                   estimatedDeviceMemoryGB, selectedModelVramRequirementMB,
                   compatibilityError, modelLoadError, workerError,
                   probe, attempts, mq>>

\* await chat.completions.create (line 1212) resolves and the rest of the
\* try block runs, lines 1213-1226
CompletionResolve(r, content) ==
    /\ requests[r].pc = "pending"
    /\ messages' = Append(messages,
           Message("assistant", FormatAndValidateJsonResponse(FirstChoiceText(content)),
                   GenDuration))
    /\ requests' = [requests EXCEPT ![r].pc = "replied"]
    /\ isGenerating' = FALSE
    /\ last' = <<"async", "">>
    /\ UNCHANGED <<worker, engine, models, selectedModelId, engineStatus, engineProgress,
                   modelLoadTimeMs, systemPrompt, isWebGPUSupported, gpuAdapterInfo,
                   estimatedDeviceMemoryGB, selectedModelVramRequirementMB,
                   compatibilityError, modelLoadError, chatError, workerError,
                   probe, attempts, mq>>

\* the text of the error in the log
GenericErrorContent_Raw == <<"Error generating response", "errorMsg">>

\* line 1235: the content of the system message of a failed completion
GenericErrorContent == <<"Error generating response. Check console for details.">>

\* a catch block that leaves the generating flag as it is
CompletionReject_KeepsGenerating(r) ==
    /\ requests[r].pc = "pending"
    /\ chatError' = <<"Error generating response", "errorMsg">>
    /\ messages' = Append(messages,
           Message("system", GenericErrorContent, NullNum))
    /\ requests' = [requests EXCEPT ![r].pc = "failed"]
    /\ last' = <<"async", "">>
    /\ UNCHANGED <<worker, engine, models, selectedModelId, engineStatus, engineProgress,
                   modelLoadTimeMs, systemPrompt, isWebGPUSupported, gpuAdapterInfo,
                   estimatedDeviceMemoryGB, selectedModelVramRequirementMB,
                   compatibilityError, modelLoadError, workerError, isGenerating,
                   probe, attempts, mq>>

\* await chat.completions.create throws: the catch block, lines 1228-1239
CompletionReject(r) ==
    /\ requests[r].pc = "pending"
    /\ chatError' = <<"Error generating response", "errorMsg">>
    /\ messages' = Append(messages,
           Message("system", GenericErrorContent, NullNum))
    /\ requests' = [requests EXCEPT ![r].pc = "failed"]
    /\ isGenerating' = FALSE
    /\ last' = <<"async", "">>
    /\ UNCHANGED <<worker, engine, models, selectedModelId, engineStatus, engineProgress,
                   modelLoadTimeMs, systemPrompt, isWebGPUSupported, gpuAdapterInfo,
                   estimatedDeviceMemoryGB, selectedModelVramRequirementMB,
                   compatibilityError, modelLoadError, workerError,
                   probe, attempts, mq>>

(* ----------------------------- specification ---------------------------- *)
Next ==
    \/ \E ok \in BOOLEAN, reading \in MemoryReadings : ProbeResume(ok, reading)
    \/ \E errorMsg \in WorkerErrorMsgs : WorkerOnError(errorMsg)
    \/ \E modelId \in ModelIds : LoadModel(modelId)
    \/ \E a \in 1..Len(attempts) : UnloadResolve(a)
    \/ \E a \in 1..Len(attempts) : UnloadReject(a)
    \/ \E a \in 1..Len(attempts) : CreateResolve(a)
    \/ \E a \in 1..Len(attempts) : CreateReject(a)
    \/ PassRejection
    \/ LoadThen
    \/ \E a \in 1..Len(attempts) : DiscardUnloadResolve(a)
    \/ \E a \in 1..Len(attempts) : DiscardUnloadReject(a)
    \/ LoadCatch
    \/ \E a \in 1..Len(attempts), report \in Reports : InitProgressCallback(a, report)
    \/ \E prompt \in Prompts : SetSystemPrompt(prompt)
    \/ ResetChat
    \/ \E usrPrompt \in Texts : SendMessage(usrPrompt)
    \/ \E r \in 1..Len(requests), content \in Responses : CompletionResolve(r, content)
    \/ \E r \in 1..Len(requests) : CompletionReject(r)

Spec == Init /\ [][Next]_vars

(* ------------------------- the chat of a ready store -------------------- *)
(* The store as startup leaves it when the default model has loaded, and    *)
(* the operations of the chat on it, with more texts than Spec follows.     *)
ChatPrompts == Prompts \cup {<<" ", "e">>, <<"e", " ">>}

ChatResponses == Responses \cup {
    NoContent,
    <<>>,
    <<"sorry">>,
    <<"{", "\"classification\"", ":", "\"MAYBE\"", ",", "\"translation\"", ":", "\"hi\"", "}">> }

ChatInit ==
    /\ worker = TRUE
    /\ engine = 1
    /\ models = PrepareModels(ModelList)
    /\ selectedModelId = DEFAULT_MODEL_ID
    /\ engineStatus = <<"loaded. Ready.", DEFAULT_MODEL_ID>>
    /\ engineProgress = Scale
    /\ isGenerating = FALSE
    /\ messages = <<>>
    /\ modelLoadTimeMs = LoadDuration
    /\ systemPrompt = DEFAULT_SYSTEM_PROMPT
    /\ isWebGPUSupported = "true"
    /\ gpuAdapterInfo = <<"vendor", "architecture">>
    /\ estimatedDeviceMemoryGB = 4
    /\ selectedModelVramRequirementMB = 3000
    /\ compatibilityError = Null
    /\ modelLoadError = Null
    /\ chatError = Null
    /\ workerError = Null
    /\ probe = "done"
    /\ attempts = << [modelId |-> DEFAULT_MODEL_ID, pc |-> "ready", init |-> TRUE,
                      created |-> TRUE, unloads |-> 0, discard |-> "none"] >>
    /\ requests = <<>>
    /\ mq = <<>>
    /\ last = <<"async", "">>

ChatNext ==
    \/ \E prompt \in ChatPrompts : SetSystemPrompt(prompt)
    \/ ResetChat
    \/ \E usrPrompt \in Texts : SendMessage(usrPrompt)
    \/ \E r \in 1..Len(requests), content \in ChatResponses : CompletionResolve(r, content)
    \/ \E r \in 1..Len(requests) : CompletionReject(r)
    \/ \E errorMsg \in WorkerErrorMsgs : WorkerOnError(errorMsg)

ChatSpec == ChatInit /\ [][ChatNext]_vars

(* ------------------- the normalizer on many responses ------------------- *)
\* length of the short responses
MaxRawLen == 3

ShortAlphabet == {"{", "}", "null", "\"hi\"", " ", "FENCEjson", "FENCE", "sorry"}

ShortTexts == UNION {[1..n -> ShortAlphabet] : n \in 0..MaxRawLen}

\* JSON.stringify of an object with the two members in either order, of one
\* with a third member, and of one without a translation
CompactTexts ==
    LET cs == {"\"QUESTION\"", "\"ACTION\"", "\"NOSENSE\"", "\"MAYBE\"", "1", "null"}
        ts == {"\"hi\"", "\"\"", "0", "null"}
    IN  {<<"{", "\"classification\"", ":", c, ",", "\"translation\"", ":", t, "}">> :
             c \in cs, t \in ts}
        \cup {<<"{", "\"translation\"", ":", t, ",", "\"classification\"", ":", c, "}">> :
                 c \in cs, t \in ts}
        \cup {<<"{", "\"classification\"", ":", c, ",", "\"translation\"", ":", "\"hi\"",
                 ",", "\"hi\"", ":", "true", "}">> : c \in cs}
        \cup {<<"{", "\"classification\"", ":", c, "}">> : c \in cs}
        \cup {<<"{", "\"classification\"", ":", c, ",", "\"translation\"", ":", "\"hi\""
                 >> : c \in cs}

\* a JSON text as models return it: bare, padded, in a json fence with or
\* without prose around it, in a fence that does not say json
Wrappings(t) == {
    t,
    <<" ", "\n">> \o t \o <<"\n">>,
    <<"FENCEjson", "\n">> \o t \o <<"\n", "FENCE">>,
    <<"sorry", " ", "FENCEjson">> \o t \o <<"FENCE", " ", "sorry">>,
    <<"FENCE", "\n">> \o t \o <<"\n", "FENCE">> }

RawResponses ==
    ShortTexts
    \cup UNION {Wrappings(t) : t \in CompactTexts}
    \cup {Stringify(JsonParse(t).val, 0) : t \in {c \in CompactTexts : JsonParse(c).ok}}
    \cup UNION {Wrappings(<<lit>>) : lit \in LiteralToks}

\* one exchange on a ready store, answered by any of the responses
NormalizerNext ==
    \/ requests = <<>> /\ SendMessage(<<"h", "i">>)
    \/ \E r \in 1..Len(requests), content \in RawResponses : CompletionResolve(r, content)

NormalizerSpec == ChatInit /\ [][NormalizerNext]_vars

(* ------------------- loadModel with any id of the registry -------------- *)
(* loadModel is public: it takes any string, and looks it up in the         *)
(* registry of the engine, not in the list prepareModels built.             *)
RegistryIds == {ModelList[i].model_id : i \in 1..Len(ModelList)} \cup {"Z"}

CatalogNext ==
    \/ \E ok \in BOOLEAN, reading \in MemoryReadings : ProbeResume(ok, reading)
    \/ \E modelId \in RegistryIds : LoadModel(modelId)
    \/ \E a \in 1..Len(attempts) : UnloadResolve(a)
    \/ \E a \in 1..Len(attempts) : CreateResolve(a)
    \/ \E a \in 1..Len(attempts), report \in Reports : InitProgressCallback(a, report)
    \/ LoadThen

CatalogSpec == Init /\ [][CatalogNext]_vars

(* ------------------- prepareModels over any registry -------------------- *)
(* prepareModels is a function of webllm.prebuiltAppConfig.model_list, which *)
(* the engine library supplies.  Here it runs on every registry of at most  *)
(* MaxRegistryLen entries; last keeps the registry it was given.            *)
MaxRegistryLen == 3

RegistryEntries ==
    [model_id : {"A", "B", "C"},
     vram_required_MB : {0, 3000, 5000, MAX_VRAM_MB_FILTER},
     model_type : {0, MODEL_TYPE_FILTER},
     quant : {ALLOWED_QUANTIZATION_FILTER}]

Registries == UNION {[1..n -> RegistryEntries] : n \in 0..MaxRegistryLen}

PrepareModelsOf(list) ==
    /\ models' = PrepareModels(list)
    /\ last' = <<"prepareModels", list>>
    /\ UNCHANGED <<worker, engine, selectedModelId, engineStatus, engineProgress, isGenerating,
                   messages, modelLoadTimeMs, systemPrompt, isWebGPUSupported, gpuAdapterInfo,
                   estimatedDeviceMemoryGB, selectedModelVramRequirementMB,
                   compatibilityError, modelLoadError, chatError, workerError,
                   probe, attempts, requests, mq>>

\* the probe calls prepareModels once (line 976)
PrepareNext == last[1] = "constructor" /\ \E list \in Registries : PrepareModelsOf(list)

PrepareSpec == Init /\ [][PrepareNext]_vars

(* --------------------- worker errors on a ready store ------------------- *)
(* The error event of the worker carries any message: an ErrorEvent whose   *)
(* message is the empty string gives errorMsg = '' (line 1023), which the   *)
(* tests of lines 1032 and 1172 take for no error.  Here the store starts   *)
(* ready and the worker may fail with the fixed text or the empty one.      *)
WorkerEventMsgs == WorkerErrorMsgs \cup {EmptyString}

CrashNext ==
    \/ \E errorMsg \in WorkerEventMsgs : WorkerOnError(errorMsg)
    \/ \E modelId \in ModelIds : LoadModel(modelId)
    \/ \E a \in 1..Len(attempts) : UnloadResolve(a)
    \/ \E a \in 1..Len(attempts) : CreateResolve(a)
    \/ LoadThen
    \/ \E usrPrompt \in Texts : SendMessage(usrPrompt)
    \/ \E r \in 1..Len(requests), content \in Responses : CompletionResolve(r, content)
    \/ \E r \in 1..Len(requests) : CompletionReject(r)

CrashSpec == ChatInit /\ [][CrashNext]_vars

(* ------------------------ loads that run to an end ---------------------- *)
(* Startup and loadModel calls with the steps of their promises.  An engine *)
(* call that was made settles in the end, and a handler that is queued as a *)
(* microtask runs.                                                          *)
LoadNext ==
    \/ \E ok \in BOOLEAN, reading \in MemoryReadings : ProbeResume(ok, reading)
    \/ \E errorMsg \in WorkerErrorMsgs : WorkerOnError(errorMsg)
    \/ \E modelId \in ModelIds : LoadModel(modelId)
    \/ \E a \in 1..Len(attempts) : UnloadResolve(a)
    \/ \E a \in 1..Len(attempts) : UnloadReject(a)
    \/ \E a \in 1..Len(attempts) : CreateResolve(a)
    \/ \E a \in 1..Len(attempts) : CreateReject(a)
    \/ PassRejection
    \/ LoadThen
    \/ \E a \in 1..Len(attempts) : DiscardUnloadResolve(a)
    \/ \E a \in 1..Len(attempts) : DiscardUnloadReject(a)
    \/ LoadCatch
    \/ \E a \in 1..Len(attempts), report \in Reports : InitProgressCallback(a, report)

EngineCallSettles ==
    \E a \in 1..Len(attempts) :
        UnloadResolve(a) \/ UnloadReject(a) \/ CreateResolve(a) \/ CreateReject(a)

MicrotaskRuns == PassRejection \/ LoadThen \/ LoadCatch

LoadLiveSpec ==
    Init /\ [][LoadNext]_vars /\ WF_vars(EngineCallSettles) /\ WF_vars(MicrotaskRuns)

(* --------------------- completions that are answered -------------------- *)
(* The ready store with its chat, loads and worker events.  A completion    *)
(* request that was made settles in the end.                                *)
GenerationNext ==
    \/ CrashNext
    \/ ResetChat

CompletionSettles(r) ==
    /\ r \in 1..Len(requests)
    /\ \/ CompletionReject(r)
       \/ \E content \in Responses : CompletionResolve(r, content)

GenerationLiveSpec ==
    ChatInit /\ [][GenerationNext]_vars
             /\ \A r \in 1..MaxRequests : WF_vars(CompletionSettles(r))

(* -------------------------------- claims -------------------------------- *)
program == <<worker, engine, fields, probe, attempts, requests, mq>>

Latest == Len(attempts)

\* the step is the then handler of attempt a
ThenStepOf(a) == mq # <<>> /\ Head(mq) = <<"then", a>> /\ LoadThen

\* the step is the catch handler of attempt a
CatchStepOf(a) == mq # <<>> /\ Head(mq) = <<"catch", a>> /\ LoadCatch

\* the step is a progress report of attempt a
ProgressStepOf(a) == \E report \in Reports : InitProgressCallback(a, report)

\* C1: when the initialization of a superseded attempt for another model
\* succeeds late, the selection stays with the latest attempt, the engine of
\* the superseded attempt has been unloaded and no completion request is ever
\* sent to it.
C1_StaleLoadSuppressed ==
    \A a \in 1..Len(attempts) :
        (/\ a < Latest
         /\ attempts[a].modelId # attempts[Latest].modelId
         /\ attempts[a].pc = "stale")
        => /\ selectedModelId = attempts[Latest].modelId
           /\ attempts[a].unloads > 0
           /\ \A r \in 1..Len(requests) : requests[r].engine # a

\* C2: at most one completion request is dispatched and not yet settled.
C2_SingleFlight ==
    Cardinality({r \in 1..Len(requests) : requests[r].pc = "pending"}) <= 1

\* C3: a sendMessage call made while isGenerating is true changes nothing:
\* no message, no completion request, no state field.
C3_SendWhileGeneratingIsNoOp ==
    [][(isGenerating /\ last'[1] = "sendMessage") => UNCHANGED program]_vars

\* C3 witness: sendMessage was called with a non-blank text while a
\* generation was in flight
C3_Witness ==
    /\ last = <<"sendMessage", "busy">>
    /\ isGenerating
    /\ \E r \in 1..Len(requests) : requests[r].pc = "pending"

\* C4: at most one engine instance is live, and a live instance is the
\* handle the store holds.
C4_ExclusiveEngineOwnership ==
    /\ Cardinality({a \in 1..Len(attempts) : Live(a)}) <= 1
    /\ \A a \in 1..Len(attempts) : Live(a) => engine = a

\* C5: once a later attempt has committed, no progress report, then handler
\* or catch handler of an earlier attempt changes engineProgress,
\* engineStatus, modelLoadTimeMs or modelLoadError.
C5_LoadAttemptIsolation ==
    [][\A a \in 1..Len(attempts) :
          (a < Latest /\ (ProgressStepOf(a) \/ ThenStepOf(a) \/ CatchStepOf(a)))
          => UNCHANGED <<engineProgress, engineStatus, modelLoadTimeMs, modelLoadError>>]_vars

\* C6: while a single load attempt exists, no progress report lowers
\* engineProgress.
C6_ProgressMonotone ==
    [][(Latest = 1 /\ ProgressStepOf(1)) => engineProgress' >= engineProgress]_vars

\* C7: engineProgress is 1 only when the then handler of the load has
\* recorded modelLoadTimeMs.
C7_FullProgressOnlyWhenLoaded ==
    engineProgress = Scale => modelLoadTimeMs # NullNum

\* C8: sendMessage changes nothing while a compatibility, worker or load
\* error is set, no engine is held or engineProgress is below 1; a completion
\* request is issued only from a state with engineProgress 1, an engine and
\* none of the three errors.
C8_SendPreflight ==
    [][/\ (/\ last'[1] = "sendMessage"
           /\ \/ compatibilityError # Null \/ workerError # Null \/ modelLoadError # Null
              \/ engine = 0 \/ engineProgress < Scale)
          => UNCHANGED program
       /\ (requests' # requests /\ Len(requests') > Len(requests))
          => /\ engineProgress = Scale /\ engine # 0
             /\ compatibilityError = Null /\ workerError = Null /\ modelLoadError = Null
             /\ last' = <<"sendMessage", "accepted">>]_vars

\* C8 witness: sendMessage was called while an engine was held, no error was
\* set and the load was still in progress
C8_Witness ==
    /\ last = <<"sendMessage", "alert">>
    /\ engine # 0 /\ engineProgress < Scale
    /\ compatibilityError = Null /\ workerError = Null /\ modelLoadError = Null

\* C9: once workerError is set, compatibilityError is set, in that state
\* and ever after.
C9_WorkerErrorSticky ==
    workerError # Null => compatibilityError # Null

\* the model of the registry that loadModel(modelId) finds exceeds the
\* estimated memory
OverBudget(modelId) ==
    /\ \E i \in 1..Len(ModelList) :
          /\ ModelList[i].model_id = modelId
          /\ ModelList[i].vram_required_MB > estimatedDeviceMemoryGB * 1024
    /\ estimatedDeviceMemoryGB # NullNum

\* what C10 says of the state after the call
GateClosed ==
    /\ compatibilityError' # Null /\ compatibilityError'[1] = "Insufficient memory"
    /\ engineProgress' = 0
    /\ modelLoadTimeMs' = NullNum
    /\ attempts' = attempts

\* C10 as stated: every loadModel(id) for a model whose VRAM requirement
\* exceeds the known estimated memory sets an "Insufficient memory"
\* compatibilityError, engineProgress 0 and no load time, and starts no
\* engine initialization.
C10_VramGate_AsStated ==
    [][\A modelId \in ModelIds :
          (OverBudget(modelId) /\ LoadModel(modelId)) => GateClosed]_vars

\* C10 amended: the same, for the calls made while no compatibility error
\* other than an "Insufficient memory" one is active.
C10_VramGate ==
    [][\A modelId \in ModelIds :
          (/\ OverBudget(modelId)
           /\ (compatibilityError = Null \/ compatibilityError[1] = "Insufficient memory")
           /\ LoadModel(modelId))
          => GateClosed]_vars

\* C10 witness: a call was turned down by the VRAM check
C10_Witness ==
    /\ last = <<"loadModel", "vram">>
    /\ estimatedDeviceMemoryGB = 4
    /\ selectedModelVramRequirementMB = 5000
    /\ compatibilityError = <<"Insufficient memory", "B">>

\* loadModel(modelId) finds a model with a VRAM requirement that the
\* estimated memory, when known, covers
WithinBudget(modelId) ==
    \E i \in 1..Len(ModelList) :
        /\ ModelList[i].model_id = modelId
        /\ ModelList[i].vram_required_MB > 0
        /\ \/ estimatedDeviceMemoryGB = NullNum
           \/ ModelList[i].vram_required_MB <= estimatedDeviceMemoryGB * 1024

\* the call committed to loading modelId: a new attempt was started for it
Committed(modelId) ==
    /\ Len(attempts') = Len(attempts) + 1
    /\ attempts'[Len(attempts')].modelId = modelId
    /\ attempts'[Len(attempts')].pc \in {"unload", "create"}
    /\ selectedModelId' = modelId

\* C11: a loadModel(id) made while the "Insufficient memory" error of a
\* refused load is set, for a registry model that fits the estimated memory,
\* clears compatibilityError and commits to loading id.
C11_VramErrorRecoverable ==
    [][\A modelId \in ModelIds :
          (/\ compatibilityError # Null /\ compatibilityError[1] = "Insufficient memory"
           /\ WithinBudget(modelId) /\ LoadModel(modelId))
          => (compatibilityError' = Null /\ Committed(modelId))]_vars

\* C11 witness: a load has just committed from a state holding the VRAM
\* error, and no worker error occurred
C11_Witness ==
    /\ last = <<"loadModel", "commitCleared">>
    /\ compatibilityError = Null /\ workerError = Null
    /\ Len(attempts) = 2 /\ attempts[2].pc \in {"unload", "create"}

\* C12: while a compatibility error other than the "Insufficient memory" one
\* is set, a loadModel call with any id changes engineStatus only: every other
\* field and the engine handle stay, and no engine initialization is started.
C12_BlockedLoadFrame ==
    [][\A modelId \in ModelIds :
          (/\ compatibilityError # Null /\ compatibilityError[1] # "Insufficient memory"
           /\ LoadModel(modelId))
          => UNCHANGED <<worker, engine, models, selectedModelId, engineProgress,
                         isGenerating, messages, modelLoadTimeMs, systemPrompt,
                         isWebGPUSupported, gpuAdapterInfo, estimatedDeviceMemoryGB,
                         selectedModelVramRequirementMB, compatibilityError,
                         modelLoadError, chatError, workerError,
                         attempts, requests, mq>>]_vars

\* C12 witness: loadModel was refused after a worker error, with a load
\* attempt under way
C12_Witness ==
    /\ last = <<"loadModel", "blocked">>
    /\ workerError # Null /\ compatibilityError = workerError
    /\ engineStatus[1] = "Cannot load model"
    /\ Len(attempts) = 1 /\ attempts[1].pc = "create"

\* C13: no failure of an asynchronous engine call goes unhandled; here, the
\* unload() of a discarded stale engine never ends in a rejection without a
\* handler.
C13_FailureContainment ==
    \A a \in 1..Len(attempts) : attempts[a].discard # "rejected"

\* C14: from a state with a non-empty log, setSystemPrompt(text) with
\* trim(text) different from the trimmed current prompt empties messages,
\* sets systemPrompt to trim(text) and clears chatError.
C14_PromptChangeClearsLog ==
    [][\A prompt \in ChatPrompts :
          (SetSystemPrompt(prompt) /\ messages # <<>> /\ Trim(prompt) # Trim(systemPrompt))
          => (messages' = <<>> /\ systemPrompt' = Trim(prompt) /\ chatError' = Null)]_vars

\* C14 witness: a prompt with another trimmed text was set over a log that
\* held messages, after a completion had failed
C14_Witness ==
    /\ last = <<"setSystemPrompt", "cleared">>
    /\ systemPrompt = <<"e">>
    /\ messages = <<>> /\ chatError = Null
    /\ \E r \in 1..Len(requests) : requests[r].pc = "failed"

\* C15: setSystemPrompt(text) with trim(text) equal to the trimmed current
\* prompt leaves systemPrompt, messages and chatError as they are.
C15_SamePromptIsNoOp ==
    [][\A prompt \in Prompts :
          (SetSystemPrompt(prompt) /\ Trim(prompt) = Trim(systemPrompt))
          => UNCHANGED <<systemPrompt, messages, chatError>>]_vars

\* C16: whatever the response text is (empty, prose, malformed JSON, JSON of
\* another shape, a JSON scalar, a fenced block with or without prose), the
\* normalizer returns a non-empty text: the completion appends an assistant
\* message whose content is not empty.
C16_NormalizerTotal ==
    \A r \in 1..Len(requests) :
        requests[r].pc = "replied"
        => (/\ Len(messages) = 2
            /\ messages[2].role = "assistant"
            /\ messages[2].content # <<>>)

\* C16 witness: the reply to an empty response
C16_Witness ==
    /\ requests # <<>> /\ requests[1].pc = "replied"
    /\ Len(messages) = 2 /\ messages[2].role = "assistant"
    /\ messages[2].content = <<"Error: Could not parse AI response as valid JSON.", "\n",
                 "Raw response:", "\n">>

\* the classifications the schema allows, and translations
Classifications == {"\"QUESTION\"", "\"ACTION\"", "\"NOSENSE\""}
Translations == {"\"hi\"", "\"\""}

\* JSON.stringify(o) and JSON.stringify(o, null, 2) of
\* o = {classification: c, translation: t}
CompactJson(c, t) ==
    <<"{", "\"classification\"", ":", c, ",", "\"translation\"", ":", t, "}">>
PrettyJson(c, t) ==
    <<"{", "\n",
      " ", " ", "\"classification\"", ":", " ", c, ",", "\n",
      " ", " ", "\"translation\"", ":", " ", t, "\n",
      "}">>

\* C17: for o with an allowed classification and a string translation, the
\* normalizer maps JSON.stringify(o) to the 2-space pretty print of o, and
\* maps that pretty print to itself.
C17_NormalizerRoundTrip ==
    [][\A r \in 1..Len(requests), c \in Classifications, t \in Translations :
          /\ CompletionResolve(r, CompactJson(c, t))
             => messages'[Len(messages')].content = PrettyJson(c, t)
          /\ CompletionResolve(r, PrettyJson(c, t))
             => messages'[Len(messages')].content = PrettyJson(c, t)]_vars

\* C17 witness: the reply to a response that is such an object
C17_Witness ==
    /\ requests # <<>> /\ requests[1].pc = "replied"
    /\ Len(messages) = 2 /\ messages[2].content = PrettyJson("\"ACTION\"", "\"\"")

\* C18: when a completion succeeds, exactly one message is appended to the
\* log: an assistant message whose content is the normalizer's output for the
\* text of the first choice, the empty text when that is absent, with a
\* numeric executionTimeMs; and isGenerating becomes false.
C18_CompletionSuccess ==
    [][\A r \in 1..Len(requests), content \in ChatResponses :
          CompletionResolve(r, content)
          => (/\ Len(messages') = Len(messages) + 1
              /\ SubSeq(messages', 1, Len(messages)) = messages
              /\ messages'[Len(messages')].role = "assistant"
              /\ messages'[Len(messages')].content =
                     FormatAndValidateJsonResponse(IF content = NoContent THEN <<>> ELSE content)
              /\ messages'[Len(messages')].executionTimeMs \in Nat
              /\ ~isGenerating')]_vars

\* C18 witness: a completion has answered the only message of the log
C18_Witness ==
    /\ last = <<"async", "">> /\ ~isGenerating
    /\ Len(requests) = 1 /\ requests[1].pc = "replied"
    /\ Len(messages) = 2
    /\ messages[1] = [role |-> "user", content |-> <<"h", "i">>, executionTimeMs |-> NullNum]
    /\ messages[2].role = "assistant" /\ messages[2].executionTimeMs = GenDuration
    /\ messages[2].content = PrettyJson("\"QUESTION\"", "\"hi\"")

\* sendMessage finds nothing in its way but the text and isGenerating
ReadyToSend ==
    /\ engine # 0 /\ engineProgress = Scale
    /\ compatibilityError = Null /\ workerError = Null /\ modelLoadError = Null

\* C19: when a completion fails, chatError is set, exactly one system message
\* with the fixed generic content is appended, isGenerating becomes false, and
\* the engine handle, engineProgress, modelLoadTimeMs and the other error
\* fields stay as they are: a store that was ready to send stays ready, and a
\* sendMessage with non-empty text on a ready idle store is accepted.
C19_CompletionFailure ==
    [][/\ \A r \in 1..Len(requests) :
             CompletionReject(r)
             => (/\ chatError' # Null
                 /\ messages' = Append(messages,
                       [role |-> "system",
                        content |-> <<"Error generating response. Check console for details.">>,
                        executionTimeMs |-> NullNum])
                 /\ ~isGenerating'
                 /\ UNCHANGED <<engine, engineProgress, modelLoadTimeMs,
                                compatibilityError, modelLoadError, workerError>>
                 /\ (ReadyToSend => ReadyToSend'))
       /\ \A usrPrompt \in Texts :
             (SendMessage(usrPrompt) /\ ReadyToSend /\ ~isGenerating /\ Trim(usrPrompt) # <<>>)
             => (last' = <<"sendMessage", "accepted">> /\ Len(requests') = Len(requests) + 1)]_vars

\* C19 witness: a completion failed and the next sendMessage was accepted
C19_Witness ==
    /\ last = <<"sendMessage", "accepted">>
    /\ Len(requests) = 2 /\ requests[1].pc = "failed" /\ requests[2].pc = "pending"
    /\ Len(messages) = 3
    /\ messages[2] = [role |-> "system",
                      content |-> <<"Error generating response. Check console for details.">>,
                      executionTimeMs |-> NullNum]
    /\ messages[3].role = "user"

\* C20: with modelLoadError set and no compatibility error, loadModel(id) for
\* a registry model that passes the VRAM check commits to loading id and
\* clears modelLoadError.
C20_ModelErrorDoesNotBlock ==
    [][\A modelId \in ModelIds :
          (/\ modelLoadError # Null /\ compatibilityError = Null
           /\ WithinBudget(modelId) /\ LoadModel(modelId))
          => (Committed(modelId) /\ modelLoadError' = Null)]_vars

\* C20 witness: the load of A failed and loadModel("B") has just committed
C20_Witness ==
    /\ last = <<"loadModel", "commit">>
    /\ Len(attempts) = 2 /\ attempts[1].modelId = "A" /\ attempts[1].pc = "failed"
    /\ attempts[2].modelId = "B"
    /\ estimatedDeviceMemoryGB = NullNum
    /\ modelLoadError = Null /\ selectedModelId = "B"

\* C21: in every reachable state selectedModelId is empty or the id of an
\* entry of models, whatever ids loadModel is called with.
C21_SelectedModelInCatalog ==
    selectedModelId = "" \/ \E i \in 1..Len(models) : models[i].id = selectedModelId

\* the requirement an entry of models shows, and the entry a registry entry maps to
ShownVram(entry) == entry.displayName[2]

CatalogEntry(m) == [id |-> m.model_id, displayName |-> <<m.model_id, m.vram_required_MB>>]

\* models is ascending by requirement, and entries of equal requirement stand
\* in the order of the registry entries they come from
OrderedStable(list) ==
    /\ \A i, j \in 1..Len(models) : i < j => ShownVram(models[i]) <= ShownVram(models[j])
    /\ \E p \in [1..Len(models) -> 1..Len(list)] :
          /\ \A i \in 1..Len(models) : models[i] = CatalogEntry(list[p[i]])
          /\ \A i, j \in 1..Len(models) :
                (i < j /\ ShownVram(models[i]) = ShownVram(models[j])) => p[i] < p[j]
          /\ \A i, j \in 1..Len(models) : i # j => p[i] # p[j]

UniqueById == \A i, j \in 1..Len(models) : i # j => models[i].id # models[j].id

\* C22: for every registry the list prepareModels produces is ascending by
\* vram_required_MB, keeps entries of equal requirement in registry order,
\* and has no two entries with the same id.
C22_OrderedStableUnique ==
    last[1] = "prepareModels" => (OrderedStable(last[2]) /\ UniqueById)

\* the ordering half of C22 alone
C22_OrderedStableOnly ==
    last[1] = "prepareModels" => OrderedStable(last[2])

\* the uniqueness half of C22 for registries whose ids are distinct
C22_UniqueForDistinctIds ==
    (/\ last[1] = "prepareModels"
     /\ \A i, j \in 1..Len(last[2]) : i # j => last[2][i].model_id # last[2][j].model_id)
    => UniqueById

\* no compatibility error other than the VRAM one is active and the worker exists
PreflightOpen ==
    /\ worker
    /\ \/ compatibilityError = Null
       \/ compatibilityError[1] = "Insufficient memory"

\* C23: a loadModel(id) that passes every pre-flight check sets, in the one
\* synchronous step that also starts the engine initialization,
\* selectedModelId to id, engineProgress to 0, messages to empty,
\* modelLoadTimeMs to absent and isGenerating to false, and clears
\* modelLoadError and chatError.
C23_CommitResetsSession ==
    [][\A modelId \in ModelIds :
          (/\ PreflightOpen /\ WithinBudget(modelId) /\ LoadModel(modelId))
          => (/\ selectedModelId' = modelId
              /\ engineProgress' = 0
              /\ messages' = <<>>
              /\ modelLoadTimeMs' = NullNum
              /\ isGenerating' = FALSE
              /\ modelLoadError' = Null
              /\ chatError' = Null
              /\ Len(attempts') = Len(attempts) + 1
              /\ attempts'[Len(attempts')].modelId = modelId
              /\ ~attempts'[Len(attempts')].created)]_vars

\* C23 witness: loadModel("B") has just committed on a store that was
\* generating a reply: the log is empty again and isGenerating is false
\* while the request is still pending
C23_Witness ==
    /\ last = <<"loadModel", "commit">>
    /\ Len(attempts) = 2 /\ attempts[2].modelId = "B" /\ ~attempts[2].created
    /\ Len(requests) = 1 /\ requests[1].pc = "pending"
    /\ selectedModelId = "B" /\ engineProgress = 0 /\ messages = <<>>
    /\ modelLoadTimeMs = NullNum /\ ~isGenerating
    /\ modelLoadError = Null /\ chatError = Null

\* C24: when the initialization of a load of model M fails while M is the
\* selected model, modelLoadError is set, engineProgress becomes 0,
\* modelLoadTimeMs becomes absent, the engine handle is dropped, and
\* engineStatus stays as it is if compatibilityError is set; when another
\* model is selected the failure changes no state field and not the handle.
C24_LoadFailureHandling ==
    [][\A a \in 1..Len(attempts) :
          CatchStepOf(a)
          => IF selectedModelId = attempts[a].modelId
             THEN /\ modelLoadError' # Null
                  /\ engineProgress' = 0
                  /\ modelLoadTimeMs' = NullNum
                  /\ engine' = 0
                  /\ compatibilityError # Null => engineStatus' = engineStatus
             ELSE fields' = fields /\ engine' = engine]_vars

\* C24 witness: the load of the selected model has failed while a
\* compatibility error was set: the error is recorded, the handle is dropped
\* and engineStatus does not speak of the failure
C24_Witness ==
    \E a \in 1..Len(attempts) :
        /\ attempts[a].pc = "failed" /\ selectedModelId = attempts[a].modelId
        /\ mq = <<>>
        /\ modelLoadError = <<"Failed to load">>
        /\ engineProgress = 0 /\ modelLoadTimeMs = NullNum /\ engine = 0
        /\ compatibilityError # Null
        /\ engineStatus # <<"Failed to load", attempts[a].modelId>>

\* the id names no registry entry with a VRAM requirement
NotLoadable(modelId) ==
    ~\E i \in 1..Len(ModelList) :
        ModelList[i].model_id = modelId /\ ModelList[i].vram_required_MB > 0

\* C25: a loadModel(id) whose id is missing from the registry or has no VRAM
\* requirement sets modelLoadError and clears selectedModelVramRequirementMB,
\* leaves selectedModelId, engineStatus, engineProgress, messages,
\* isGenerating, modelLoadTimeMs, compatibilityError and the engine handle as
\* they are, and starts no engine initialization.
C25_InvalidIdFrame ==
    [][\A modelId \in ModelIds :
          (/\ PreflightOpen /\ NotLoadable(modelId) /\ LoadModel(modelId))
          => (/\ modelLoadError' # Null
              /\ selectedModelVramRequirementMB' = NullNum
              /\ UNCHANGED <<selectedModelId, engineStatus, engineProgress, messages,
                             isGenerating, modelLoadTimeMs, compatibilityError, engine>>
              /\ attempts' = attempts)]_vars

\* the part of C25 about the fields other than engineStatus and compatibilityError
C25_InvalidIdOtherFields ==
    [][\A modelId \in ModelIds :
          (/\ PreflightOpen /\ NotLoadable(modelId) /\ LoadModel(modelId))
          => (/\ modelLoadError' # Null
              /\ selectedModelVramRequirementMB' = NullNum
              /\ UNCHANGED <<selectedModelId, engineProgress, messages,
                             isGenerating, modelLoadTimeMs, engine>>
              /\ attempts' = attempts)]_vars

\* C26: in every state resetChat sets messages to empty, isGenerating to
\* false and chatError to absent, and leaves selectedModelId, engineProgress,
\* modelLoadTimeMs, systemPrompt, compatibilityError, modelLoadError and
\* workerError as they are.
C26_ResetChatEffect ==
    [][last' = <<"resetChat", "">>
       => (/\ messages' = <<>> /\ isGenerating' = FALSE /\ chatError' = Null
           /\ UNCHANGED <<selectedModelId, engineProgress, modelLoadTimeMs, systemPrompt,
                          compatibilityError, modelLoadError, workerError>>)]_vars

\* C26 witness: resetChat has just run on a loaded store whose one completion
\* had failed: the log with the error message and chatError are gone, the
\* load is as it was
C26_Witness ==
    /\ last = <<"resetChat", "">>
    /\ Len(requests) = 1 /\ requests[1].pc = "failed"
    /\ messages = <<>> /\ ~isGenerating /\ chatError = Null
    /\ selectedModelId = "A" /\ engineProgress = Scale /\ modelLoadTimeMs = LoadDuration

\* C27: a progress callback invoked when modelLoadTimeMs is set (the load has
\* finished) or modelLoadError is set (the load has failed) changes neither
\* engineProgress nor engineStatus, whatever it reports.
C27_LateProgressIgnored ==
    [][\A a \in 1..Len(attempts) :
          (/\ modelLoadTimeMs # NullNum \/ modelLoadError # Null
           /\ ProgressStepOf(a))
          => (engineProgress' = engineProgress /\ engineStatus' = engineStatus)]_vars

\* C27 witness: a progress callback of the finished load has just run and
\* the store still shows the load complete, with the status the then
\* handler wrote
C27_Witness ==
    /\ last = <<"progress", "">>
    /\ Len(attempts) = 1 /\ attempts[1].pc = "ready"
    /\ modelLoadTimeMs = LoadDuration /\ engineProgress = Scale
    /\ engineStatus \notin {report.text : report \in Reports}

\* the text of line 1317 for a value parsed with the given method
WarningText(method, pretty) ==
    <<"Warning: Response structure mismatch", method, "\n", "Raw JSON:", "\n">> \o pretty

\* the JSON scalars that have no fence in them
Scalars == LiteralToks \ {QuotedBlock}

\* a scalar inside a fenced json block with prose around it
FencedScalar(lit) == <<"sorry", " ", "FENCEjson", "\n", lit, "\n", "FENCE", " ", "sorry">>

\* what C28 says of a JSON scalar, alone or in a fenced block: the reply is
\* the warning with the scalar, which is its own pretty print
ScalarGetsWarning(r, lit) ==
    /\ CompletionResolve(r, <<lit>>)
       => messages'[Len(messages')].content = WarningText("direct", <<lit>>)
    /\ CompletionResolve(r, FencedScalar(lit))
       => messages'[Len(messages')].content = WarningText("markdown", <<lit>>)

\* what C28 says of an object whose classification or translation is not as
\* the schema wants
ObjectGetsWarning(r, c, t) ==
    CompletionResolve(r, CompactJson(c, t))
    => messages'[Len(messages')].content = WarningText("direct", PrettyJson(c, t))

\* C28: every response from which a JSON value is obtained, directly or from
\* a fenced json block, that is not an object of the schema, the values null,
\* false, 0 and the empty string included, is answered with the warning text
\* followed by the pretty print of the value.
C28_WrongShapeWarning ==
    [][\A r \in 1..Len(requests) :
          /\ \A lit \in Scalars : ScalarGetsWarning(r, lit)
          /\ \A t \in Translations : ObjectGetsWarning(r, "\"MAYBE\"", t)
          /\ \A c \in Classifications : ObjectGetsWarning(r, c, "0")]_vars

\* C28 for the values that JavaScript takes for true
C28_TruthyWrongShapeWarning ==
    [][\A r \in 1..Len(requests) :
          /\ \A lit \in Scalars \ {"null", "false", "0", "\"\""} : ScalarGetsWarning(r, lit)
          /\ \A t \in Translations : ObjectGetsWarning(r, "\"MAYBE\"", t)
          /\ \A c \in Classifications : ObjectGetsWarning(r, c, "0")]_vars

\* the responses from which no JSON value is obtained: the trimmed text does
\* not parse, and it has no fenced json block with content, or the content
\* of the block does not parse
NoJsonResponses ==
    {content \in RawResponses :
        /\ ~JsonParse(Trim(content)).ok
        /\ \/ FencedBlock(Trim(content)) = <<>>
           \/ ~JsonParse(FencedBlock(Trim(content))).ok}

\* C29: when neither the trimmed response nor a fenced json block in it
\* parses as JSON, the reply is the error text followed by the response as
\* it came, white space at its ends included.
C29_NoJsonKeepsRawText ==
    [][\A r \in 1..Len(requests), content \in NoJsonResponses :
          CompletionResolve(r, content)
          => messages'[Len(messages')].content =
                <<"Error: Could not parse AI response as valid JSON.", "\n",
                  "Raw response:", "\n">> \o content]_vars

\* C29 witness: the reply to prose with white space on both sides
C29_Witness ==
    /\ requests # <<>> /\ requests[1].pc = "replied"
    /\ Len(messages) = 2 /\ messages[2].role = "assistant"
    /\ messages[2].content = <<"Error: Could not parse AI response as valid JSON.", "\n",
                 "Raw response:", "\n", " ", "sorry", " ">>

\* a response that holds the text in a fenced json block: the block alone,
\* and the block with prose before and after it
FencedAlone(t) == <<"FENCEjson", "\n">> \o t \o <<"\n", "FENCE">>
FencedInProse(t) == <<"sorry", " ", "FENCEjson">> \o t \o <<"FENCE", " ", "sorry">>

C31_StartupGating ==
    [][/\ \A ok \in BOOLEAN, reading \in MemoryReadings :
             (compatibilityError' # Null /\ ProbeResume(ok, reading)) => attempts' = <<>>
       /\ (probe = "done" /\ Len(attempts') > Len(attempts)) => last'[1] = "loadModel"
       /\ attempts' = <<>>
          => (engineProgress' = 0 /\ modelLoadTimeMs' = NullNum /\ engine' = 0)]_vars

\* C31 witness: the adapter request failed and the probe has ended without
\* a load
C31_Witness ==
    /\ last = <<"probe", "skipped">>
    /\ isWebGPUSupported = "true" /\ compatibilityError = AdapterFailed
    /\ attempts = <<>> /\ engineProgress = 0 /\ modelLoadTimeMs = NullNum /\ engine = 0

\* C32: when estimatedDeviceMemoryGB is absent, a loadModel(id) for a
\* registry model with a VRAM requirement, made with a worker and no
\* compatibility error other than the VRAM one, commits to loading id
\* whatever the requirement is, and leaves no "Insufficient memory" error.
C32_FailOpenMemoryCheck ==
    [][\A modelId \in ModelIds :
          (/\ estimatedDeviceMemoryGB = NullNum /\ PreflightOpen
           /\ ~NotLoadable(modelId) /\ LoadModel(modelId))
          => (/\ Committed(modelId)
              /\ selectedModelVramRequirementMB' > 0
              /\ compatibilityError' = Null)]_vars

\* C32 witness: with the memory unknown loadModel("B") has just committed,
\* B being the model with the largest requirement
C32_Witness ==
    /\ last = <<"loadModel", "commit">>
    /\ estimatedDeviceMemoryGB = NullNum /\ compatibilityError = Null
    /\ selectedModelId = "B" /\ selectedModelVramRequirementMB = 5000
    /\ attempts[Len(attempts)].modelId = "B" /\ ~attempts[Len(attempts)].created

\* C33: in every reachable state where engineProgress is 1, modelLoadTimeMs
\* is set and compatibilityError, modelLoadError and workerError are absent,
\* the handle the store holds is an engine that was created for
\* selectedModelId and has not been unloaded.
C33_ReadyImpliesLiveEngine ==
    (/\ engineProgress = Scale /\ modelLoadTimeMs # NullNum
     /\ compatibilityError = Null /\ modelLoadError = Null /\ workerError = Null)
    => (/\ engine # 0
        /\ attempts[engine].modelId = selectedModelId
        /\ Live(engine))

\* C34: in every reachable state every assistant or system message of the
\* log comes right after a user message: no completion result is appended to
\* a log that was cleared after its request was sent.
C34_TurnStructure ==
    \A i \in 1..Len(messages) :
        messages[i].role \in {"assistant", "system"}
        => (i > 1 /\ messages[i - 1].role = "user")

\* C35: sendMessage is accepted only after a completed load: in every state
\* that an accepted sendMessage leaves, modelLoadTimeMs is set.
C35_SendOnlyAfterLoad ==
    last = <<"sendMessage", "accepted">> => modelLoadTimeMs # NullNum

CommittedAt(n) ==
    /\ Len(attempts) = n
    /\ last[1] = "loadModel" /\ last[2] \in {"commit", "commitCleared"}

\* the load has ended: the store is ready, or a load error is recorded
LoadEnded ==
    \/ engineProgress = Scale /\ modelLoadTimeMs # NullNum
    \/ modelLoadError # Null

\* after attempt n was started loadModel was called again, or the worker failed
Interfered(n) ==
    \/ Len(attempts) > n
    \/ last[1] = "loadModel" /\ last[2] \in {"blocked", "noWorker", "invalid", "vram"}
    \/ last = <<"onerror", "">>

\* C37: when loadModel commits to a load, the engine calls of the load
\* settle, and neither another loadModel call nor a worker error follows,
\* then eventually engineProgress is 1 with modelLoadTimeMs set, or
\* modelLoadError is set.
C37_LoadLiveness ==
    \A n \in 1..MaxAttempts : [](CommittedAt(n) => <>(LoadEnded \/ Interfered(n)))

\* C37 witness: the one load of the store has run to its end and the store
\* is ready
C37_Witness ==
    /\ Len(attempts) = 1 /\ attempts[1].pc = "ready" /\ mq = <<>>
    /\ last = <<"async", "">>
    /\ engineProgress = Scale /\ modelLoadTimeMs = LoadDuration /\ workerError = Null

\* the reply of request r is in: the request has settled and left its mark
Answered(r) == r <= Len(requests) /\ requests[r].pc \in {"replied", "failed"}

\* the step in which request r settles appends one message, an assistant
\* message after a result and a system message after a failure, and clears
\* the generating flag; a settled request does nothing more
OneReply(r) ==
    /\ (requests[r].pc = "pending" /\ requests'[r].pc # "pending") =>
          /\ ~isGenerating'
          /\ messages' = Append(messages, messages'[Len(messages')])
          /\ messages'[Len(messages')].role =
                IF requests'[r].pc = "replied" THEN "assistant" ELSE "system"
    /\ requests[r].pc # "pending" => requests'[r] = requests[r]

\* C38: every accepted sendMessage whose completion request settles is
\* followed by a state in which isGenerating is false and one reply, an
\* assistant message on success and a system message on failure, has been
\* appended for the request, and no second reply is appended for it.
C38_GenerationLiveness ==
    /\ \A r \in 1..MaxRequests :
          [](r <= Len(requests) => <>(Answered(r) /\ ~isGenerating))
    /\ [][\A r \in 1..Len(requests) : OneReply(r)]_vars

\* C38 witness: one request was answered with a result and one with a
\* failure, and nothing is being generated
C38_Witness ==
    /\ Len(requests) = 2
    /\ requests[1].pc = "replied" /\ requests[2].pc = "failed"
    /\ ~isGenerating
    /\ Len(messages) = 4
    /\ messages[2].role = "assistant" /\ messages[4].role = "system"

\* C39: whenever modelLoadTimeMs is set engineProgress is 1, and every step
\* that lowers engineProgress leaves modelLoadTimeMs cleared.
C39_LoadTimeImpliesFullProgress ==
    /\ [](modelLoadTimeMs # NullNum => engineProgress = Scale)
    /\ [][engineProgress' < engineProgress => modelLoadTimeMs' = NullNum]_vars

\* C39 witness: a first load failed and zeroed the progress, and the second
\* load made the store ready
C39_Witness ==
    /\ Len(attempts) = 2
    /\ attempts[1].pc = "failed" /\ attempts[2].pc = "ready"
    /\ modelLoadTimeMs = LoadDuration /\ engineProgress = Scale

\* C40: unload is invoked at most once on any engine instance, over every
\* interleaving of loadModel calls with the resolutions of initialization
\* and unload.
C40_UnloadAtMostOnce == \A a \in 1..Len(attempts) : attempts[a].unloads <= 1

====
